---- MODULE Spec2Model ----
(***************************************************************************)
(* inqui: an incremental query engine.  The model covers the input store   *)
(* (src/src/input.rs), the runtime with its two reader-writer locks        *)
(* (src/src/runtime.rs), the per-clone query stack                         *)
(* (src/src/query_stack.rs), the query cache and the query context         *)
(* (src/src/query.rs), driven the way the test system drives them          *)
(* (src/tests/common.rs, RealSystem::try_query).                           *)
(*                                                                         *)
(* Every runtime clone is a thread 1..NThreads.  A thread is either idle,  *)
(* inside set_input/remove_input (mut[t]), or inside a chain of nested     *)
(* query calls (frames[t], innermost call last).                           *)
(***************************************************************************)
EXTENDS Integers, Sequences, FiniteSets, TLC

VARIABLES
    rev,          \* SharedState.rev
    inputs,       \* SharedState.inputs: one InputStorage per input kind
    input_revs,   \* SharedState.input_revs: cell -> Revision
    shared_lock,  \* Runtime.shared: the thread holding shared.write(), or 0
    query_lock,   \* Runtime.query_lock: [writer, readers]
    id_map,       \* QueryCache.id_map: <<query type, param>> -> QueryId
    query_map,    \* QueryCache.query_map: QueryId -> QueryData
    query_id,     \* QueryCache.query_id: the next id to mint
    query_stack,  \* Runtime.query_stack.active, one per clone
    frames,       \* the nested try_query calls of each thread
    mut,          \* the set_input/remove_input call of each thread
    last,         \* outcome of the last top-level try_query of each thread
    use_lock,     \* RealSystem.use_lock
    rev_max       \* the workload stops mutating at this revision

vars == <<rev, inputs, input_revs, shared_lock, query_lock, id_map, query_map,
          query_id, query_stack, frames, mut, last, use_lock, rev_max>>

(***************************************************************************)
(* Bounds of the model.                                                    *)
(***************************************************************************)
NThreads == 2
MaxMut == 1
MaxMutSeq == 3
MaxMutParam == 2
MaxVal == 1
MaxN == 12

(***************************************************************************)
(* Program constants.                                                      *)
(***************************************************************************)
START == 1
AInput == 0
BInput == 1
CInput == 2
ParametrizedInput == 3
OptionalInput == 4

Threads == 1..NThreads
Values == 0..MaxVal
Kinds == {AInput, BInput, CInput, ParametrizedInput, OptionalInput}

(***************************************************************************)
(* Option<T> and hash maps.                                                *)
(***************************************************************************)
None == <<>>
Some(x) == <<x>>
Unwrap(o) == o[1]

EmptyMap == [x \in {} |-> 0]
Put(m, k, v) == [x \in (DOMAIN m) \cup {k} |-> IF x = k THEN v ELSE m[x]]
Del(m, k) == [x \in (DOMAIN m) \ {k} |-> m[x]]

SetMax(S) == CHOOSE x \in S : \A y \in S : y <= x
Range(s) == {s[i] : i \in DOMAIN s}

(***************************************************************************)
(* Revision (src/src/revision.rs).                                         *)
(***************************************************************************)
RevisionNew == START

\* (mutant) the revision is not advanced
IncrementSkip(r) == r

\* increment
Increment(r) == r + 1

(***************************************************************************)
(* InputStorage (src/src/input.rs).                                        *)
(***************************************************************************)
StorageDefault == [index_map |-> EmptyMap, value_map |-> EmptyMap, key_index |-> 0]

\* get: Some(<<value, KeyIndex>>) or None
StorageGet(s, key) ==
    IF key \in DOMAIN s.index_map
    THEN Some(<<s.value_map[s.index_map[key]], s.index_map[key]>>)
    ELSE None

\* (mutant) index_map.insert(key, new_index): every set gives the key a new index
StorageSetFresh(s, key, value) ==
    [storage |-> [index_map |-> Put(s.index_map, key, s.key_index),
                  value_map |-> Put(s.value_map, s.key_index, value),
                  key_index |-> s.key_index + 1],
     index |-> s.key_index]

\* set: the counter advances on every call; the entry keeps an existing index
\* (u32 counter: MaxMut keeps it far below the wrap)
StorageSet(s, key, value) ==
    LET new_index == s.key_index
        index == IF key \in DOMAIN s.index_map THEN s.index_map[key] ELSE new_index
    IN  [storage |-> [index_map |-> Put(s.index_map, key, index),
                      value_map |-> Put(s.value_map, index, value),
                      key_index |-> s.key_index + 1],
         index |-> index]

\* (mutant) remove forgets the value map
StorageRemoveKey(s, key) ==
    IF key \in DOMAIN s.index_map
    THEN [storage |-> [index_map |-> Del(s.index_map, key),
                       value_map |-> s.value_map,
                       key_index |-> s.key_index],
          removed |-> Some(<<s.value_map[s.index_map[key]], s.index_map[key]>>)]
    ELSE [storage |-> s, removed |-> None]

\* (mutant) remove hands the index of the removed key back to the counter
StorageRemoveRecycle(s, key) ==
    IF key \in DOMAIN s.index_map
    THEN [storage |-> [index_map |-> Del(s.index_map, key),
                       value_map |-> Del(s.value_map, s.index_map[key]),
                       key_index |-> s.index_map[key]],
          removed |-> Some(<<s.value_map[s.index_map[key]], s.index_map[key]>>)]
    ELSE [storage |-> s, removed |-> None]

\* (mutant) remove reports the table's counter as the index of the removed key
StorageRemoveCounter(s, key) ==
    IF key \in DOMAIN s.index_map
    THEN [storage |-> [index_map |-> Del(s.index_map, key),
                       value_map |-> Del(s.value_map, s.index_map[key]),
                       key_index |-> s.key_index],
          removed |-> Some(<<s.value_map[s.index_map[key]], s.key_index>>)]
    ELSE [storage |-> s, removed |-> None]

\* remove: drops the key from both maps
StorageRemove(s, key) ==
    IF key \in DOMAIN s.index_map
    THEN [storage |-> [index_map |-> Del(s.index_map, key),
                       value_map |-> Del(s.value_map, s.index_map[key]),
                       key_index |-> s.key_index],
          removed |-> Some(<<s.value_map[s.index_map[key]], s.index_map[key]>>)]
    ELSE [storage |-> s, removed |-> None]

(***************************************************************************)
(* Query bodies of the test drivers.  A body is a sequence of steps: a     *)
(* read of an input through the context, or a call of another query        *)
(* through the system handle.  A unit key or parameter is 0, a bool is     *)
(* 0/1, Param::Foo is 0 and Param::Bar is 1.                               *)
(***************************************************************************)
In(kind, key, required) ==
    [op |-> "input", kind |-> kind, key |-> key, required |-> required, q |-> "", p |-> 0]
Call(q, p) ==
    [op |-> "call", kind |-> 0, key |-> 0, required |-> FALSE, q |-> q, p |-> p]

\* sum_abc and square_parametrized (src/tests/simple.rs)
BodySimple(q, p) ==
    IF q = "sum_abc"
    THEN <<In(AInput, 0, TRUE), In(BInput, 0, TRUE), In(CInput, 0, TRUE)>>
    ELSE <<In(ParametrizedInput, p, TRUE), In(ParametrizedInput, p, TRUE)>>

\* longer (src/tests/parallel.rs): a, then b
BodyLonger(q, p) == <<In(AInput, 0, TRUE), In(BInput, 0, TRUE)>>

\* foo, bar, baz (src/tests/cycle.rs)
BodyCycle(q, p) ==
    CASE q = "foo" -> IF p > 1 THEN <<Call("bar", p \div 2)>> ELSE <<>>
      [] q = "bar" -> IF p % 2 = 0 THEN <<Call("foo", p)>> ELSE <<Call("baz", p)>>
      [] OTHER     -> <<Call("bar", p + 1)>>

\* a query that returns the optional input as the accessor gives it
\* (src/tests/common.rs, DatabaseImpl::optional)
BodyOptional(q, p) == <<In(OptionalInput, 0, FALSE)>>

\* delegate: a query that only forwards to longer through the system handle,
\* the way baz forwards to bar
BodyDelegate(q, p) == <<Call("longer", p)>>

Body(q, p) ==
    CASE q \in {"sum_abc", "square_parametrized"} -> BodySimple(q, p)
      [] q = "longer" -> BodyLonger(q, p)
      [] q = "delegate" -> BodyDelegate(q, p)
      [] q = "optional" -> BodyOptional(q, p)
      [] OTHER -> BodyCycle(q, p)

\* the value a body returns from the values its steps produced
Output(q, p, vals) ==
    CASE q = "sum_abc" -> vals[1] + vals[2] + vals[3]
      [] q = "square_parametrized" -> vals[1] * vals[2]
      [] q = "longer" -> vals[1] + vals[2]
      [] q = "foo" -> IF p > 1 THEN vals[1] ELSE p
      [] OTHER -> vals[1]

(***************************************************************************)
(* Runtime (src/src/runtime.rs).                                           *)
(***************************************************************************)
Cell(kind, key_index) == <<kind, key_index>>

\* (mutant) min() in place of max()
last_rev_of_min(dependencies) ==
    IF dependencies = {} THEN RevisionNew
    ELSE CHOOSE x \in {input_revs[d] : d \in dependencies} :
            \A y \in {input_revs[d] : d \in dependencies} : x <= y

\* (mutant) the revision of the whole store, whatever the cells
last_rev_of_any(dependencies) == rev

\* (mutant) unwrap_or(shared.rev): no dependencies count as changed just now
last_rev_of_current(dependencies) ==
    IF dependencies = {} THEN rev
    ELSE SetMax({input_revs[d] : d \in dependencies})

\* the maximum revision among the cells, or the default revision
last_rev_of(dependencies) ==
    IF dependencies = {} THEN RevisionNew
    ELSE SetMax({input_revs[d] : d \in dependencies})

\* (mutant) the readers do not take shared.read()
SharedReadableAnyway == TRUE

\* shared.read() is granted while no thread holds shared.write()
SharedReadable == shared_lock = 0

\* (mutant) query_lock.write() does not wait for the readers
QueryWritableAnyway == TRUE

\* query_lock.write() returns once the thread that took the writer bit has
\* seen every reader leave
QueryWritable ==
    \A u \in Threads : query_lock.readers[u] = 0

\* (mutant) query_lock.read() excludes other readers too
QueryReadableAlone ==
    /\ query_lock.writer = 0
    /\ \A u \in Threads : query_lock.readers[u] = 0

\* query_lock.read() is granted while no thread holds, or waits in,
\* query_lock.write()
QueryReadable == query_lock.writer = 0

MutIdle ==
    [pc |-> "idle", op |-> "", kind |-> 0, key |-> 0, value |-> 0, key_index |-> 0,
     rev_in |-> 0]

\* a thread outside every call
Idle(t) ==
    /\ frames[t] = <<>>
    /\ mut[t].pc = "idle"
    /\ last[t].how # "panic"

Unlocked == [query_lock EXCEPT !.writer = 0]

\* set_input is called: query_lock.write() takes the writer bit and waits for
\* the readers to leave
set_input(t, kind, key, value) ==
    /\ Idle(t)
    /\ rev < rev_max
    /\ query_lock.writer = 0
    /\ query_lock' = [query_lock EXCEPT !.writer = t]
    /\ mut' = [mut EXCEPT ![t] = [pc |-> "wait", op |-> "set", kind |-> kind,
                                  key |-> key, value |-> value, key_index |-> 0,
                                  rev_in |-> 0]]
    /\ UNCHANGED <<rev, inputs, input_revs, shared_lock, id_map, query_map, query_id,
                   query_stack, frames, last, use_lock, rev_max>>

\* remove_input is called: the same locking
remove_input(t, kind, key) ==
    /\ Idle(t)
    /\ rev < rev_max
    /\ query_lock.writer = 0
    /\ query_lock' = [query_lock EXCEPT !.writer = t]
    /\ mut' = [mut EXCEPT ![t] = [pc |-> "wait", op |-> "remove", kind |-> kind,
                                  key |-> key, value |-> 0, key_index |-> 0,
                                  rev_in |-> 0]]
    /\ UNCHANGED <<rev, inputs, input_revs, shared_lock, id_map, query_map, query_id,
                   query_stack, frames, last, use_lock, rev_max>>

\* (mutant) the mutation goes on without shared.write()
acquire_unshared(t) ==
    /\ mut[t].pc = "wait"
    /\ QueryWritable
    /\ shared_lock = 0
    /\ shared_lock' = 0
    /\ mut' = [mut EXCEPT ![t].pc = "locked", ![t].rev_in = rev]
    /\ UNCHANGED <<rev, inputs, input_revs, query_lock, id_map, query_map, query_id,
                   query_stack, frames, last, use_lock, rev_max>>

\* (mutant) query_lock.write() returns although readers hold the lock
acquire_early(t) ==
    /\ mut[t].pc = "wait"
    /\ shared_lock = 0
    /\ shared_lock' = t
    /\ mut' = [mut EXCEPT ![t].pc = "locked", ![t].rev_in = rev]
    /\ UNCHANGED <<rev, inputs, input_revs, query_lock, id_map, query_map, query_id,
                   query_stack, frames, last, use_lock, rev_max>>

\* query_lock.write() returns, then shared.write()
acquire(t) ==
    /\ mut[t].pc = "wait"
    /\ QueryWritable
    /\ shared_lock = 0
    /\ shared_lock' = t
    /\ mut' = [mut EXCEPT ![t].pc = "locked", ![t].rev_in = rev]
    /\ UNCHANGED <<rev, inputs, input_revs, query_lock, id_map, query_map, query_id,
                   query_stack, frames, last, use_lock, rev_max>>

\* (mutant) remove_input goes on to the revision and the stamp although the
\* key was absent
storage_step_always(t) ==
    /\ mut[t].pc = "locked"
    /\ LET m == mut[t]
           s == inputs[m.kind]
       IN  IF m.op = "set"
           THEN LET r == StorageSet(s, m.key, m.value)
                IN  /\ inputs' = [inputs EXCEPT ![m.kind] = r.storage]
                    /\ mut' = [mut EXCEPT ![t].pc = "stored", ![t].key_index = r.index]
                    /\ UNCHANGED <<shared_lock, query_lock>>
           ELSE LET r == StorageRemove(s, m.key)
                IN  /\ inputs' = [inputs EXCEPT ![m.kind] = r.storage]
                    /\ mut' = [mut EXCEPT ![t].pc = "stored",
                                          ![t].key_index =
                                              IF r.removed = None THEN 0
                                              ELSE Unwrap(r.removed)[2]]
                    /\ UNCHANGED <<shared_lock, query_lock>>
    /\ UNCHANGED <<rev, input_revs, id_map, query_map, query_id, query_stack,
                   frames, last, use_lock, rev_max>>

\* T::storage_mut(&mut shared.inputs).set(key, value) / .remove(key); a remove
\* of an absent key ends the call: the guards are dropped, nothing else changes
storage_step(t) ==
    /\ mut[t].pc = "locked"
    /\ LET m == mut[t]
           s == inputs[m.kind]
       IN  IF m.op = "set"
           THEN LET r == StorageSet(s, m.key, m.value)
                IN  /\ inputs' = [inputs EXCEPT ![m.kind] = r.storage]
                    /\ mut' = [mut EXCEPT ![t].pc = "stored", ![t].key_index = r.index]
                    /\ UNCHANGED <<shared_lock, query_lock>>
           ELSE LET r == StorageRemove(s, m.key)
                IN  IF r.removed = None
                    THEN /\ mut' = [mut EXCEPT ![t] = MutIdle]
                         /\ shared_lock' = 0
                         /\ query_lock' = Unlocked
                         /\ UNCHANGED inputs
                    ELSE /\ inputs' = [inputs EXCEPT ![m.kind] = r.storage]
                         /\ mut' = [mut EXCEPT ![t].pc = "stored",
                                               ![t].key_index = Unwrap(r.removed)[2]]
                         /\ UNCHANGED <<shared_lock, query_lock>>
    /\ UNCHANGED <<rev, input_revs, id_map, query_map, query_id, query_stack,
                   frames, last, use_lock, rev_max>>

\* shared.rev.increment()
increment(t) ==
    /\ mut[t].pc = "stored"
    /\ rev' = Increment(rev)
    /\ mut' = [mut EXCEPT ![t].pc = "bumped"]
    /\ UNCHANGED <<inputs, input_revs, shared_lock, query_lock, id_map, query_map,
                   query_id, query_stack, frames, last, use_lock, rev_max>>

\* (mutant) entry(cell).or_insert(rev): an existing stamp is kept
StampedOnce(revs, cell, r) == IF cell \in DOMAIN revs THEN revs ELSE Put(revs, cell, r)

Stamped(revs, cell, r) == Put(revs, cell, r)

\* (mutant) remove_input deletes the stamp of the removed cell
stamp_forget(t) ==
    /\ mut[t].pc = "bumped"
    /\ input_revs' = IF mut[t].op = "remove"
                     THEN Del(input_revs, Cell(mut[t].kind, mut[t].key_index))
                     ELSE Stamped(input_revs, Cell(mut[t].kind, mut[t].key_index), rev)
    /\ mut' = [mut EXCEPT ![t] = MutIdle]
    /\ shared_lock' = 0
    /\ query_lock' = Unlocked
    /\ last' = [u \in Threads |-> [last[u] EXCEPT !.clean = FALSE]]
    /\ UNCHANGED <<rev, inputs, id_map, query_map, query_id, query_stack,
                   frames, use_lock, rev_max>>

\* shared.input_revs.insert(cell, rev); drop(guard); the call returns
stamp(t) ==
    /\ mut[t].pc = "bumped"
    /\ input_revs' = Stamped(input_revs, Cell(mut[t].kind, mut[t].key_index), rev)
    /\ mut' = [mut EXCEPT ![t] = MutIdle]
    /\ shared_lock' = 0
    /\ query_lock' = Unlocked
    /\ last' = [u \in Threads |-> [last[u] EXCEPT !.clean = FALSE]]
    /\ UNCHANGED <<rev, inputs, id_map, query_map, query_id, query_stack,
                   frames, use_lock, rev_max>>

(***************************************************************************)
(* QueryStack (src/src/query_stack.rs).                                    *)
(***************************************************************************)
\* (mutant) the cycle is not closed with the repeated id
PushOpen(active, id) ==
    LET found == {i \in 1..Len(active) : active[i] = id}
    IN  IF found # {}
        THEN [ok |-> FALSE, active |-> active, pop_at |-> 0,
              cycle |-> SubSeq(active, SetMax(found), Len(active))]
        ELSE [ok |-> TRUE, active |-> Append(active, id), pop_at |-> Len(active) + 1,
              cycle |-> <<>>]

\* (mutant) the scan is left out: every id goes on top
PushBlind(active, id) ==
    [ok |-> TRUE, active |-> Append(active, id), pop_at |-> Len(active) + 1,
     cycle |-> <<>>]

\* (mutant) the clones share one stack: an id active on any of them is a cycle
PushShared(active, id) ==
    IF \E u \in Threads : id \in Range(query_stack[u])
    THEN [ok |-> FALSE, active |-> active, pop_at |-> 0, cycle |-> <<id, id>>]
    ELSE [ok |-> TRUE, active |-> Append(active, id), pop_at |-> Len(active) + 1,
          cycle |-> <<>>]

\* (mutant) pop_at is taken before the id is pushed
PushBelow(active, id) ==
    LET found == {i \in 1..Len(active) : active[i] = id}
    IN  IF found # {}
        THEN [ok |-> FALSE, active |-> active, pop_at |-> 0,
              cycle |-> Append(SubSeq(active, SetMax(found), Len(active)), id)]
        ELSE [ok |-> TRUE, active |-> Append(active, id), pop_at |-> Len(active),
              cycle |-> <<>>]

\* push: scan from the top for query_id; a cycle is active[cycle_start..]
\* followed by query_id, otherwise the id goes on top
Push(active, id) ==
    LET found == {i \in 1..Len(active) : active[i] = id}
    IN  IF found # {}
        THEN [ok |-> FALSE, active |-> active, pop_at |-> 0,
              cycle |-> Append(SubSeq(active, SetMax(found), Len(active)), id)]
        ELSE [ok |-> TRUE, active |-> Append(active, id), pop_at |-> Len(active) + 1,
              cycle |-> <<>>]

\* ActiveQueryGuard::drop: assert_eq!(active.len(), pop_at); active.pop()
GuardDropOk(active, pop_at) == Len(active) = pop_at

\* (mutant) the guard is dropped without popping
PopKeep(active) == active

Pop(active) == SubSeq(active, 1, Len(active) - 1)

(***************************************************************************)
(* QueryCache and QueryContext (src/src/query.rs).                         *)
(***************************************************************************)
Key(q, p) == <<q, p>>

\* (mutant) last_rev < data.valid_at
EntryStrict(q, p) ==
    IF Key(q, p) \notin DOMAIN id_map THEN None
    ELSE LET id == id_map[Key(q, p)]
         IN  IF id \notin DOMAIN query_map THEN None
             ELSE LET data == query_map[id]
                      last_rev == last_rev_of(data.dependencies)
                  IN  IF last_rev < data.valid_at THEN Some(data) ELSE None

\* the stored entry that cached() finds for (q, p), if it is a hit
Entry(q, p) ==
    IF Key(q, p) \notin DOMAIN id_map THEN None
    ELSE LET id == id_map[Key(q, p)]
         IN  IF id \notin DOMAIN query_map THEN None
             ELSE LET data == query_map[id]
                      last_rev == last_rev_of(data.dependencies)
                  IN  IF last_rev <= data.valid_at THEN Some(data) ELSE None

\* cached(): Some(output) or None
cached(q, p) ==
    IF Entry(q, p) = None THEN None ELSE Some(Unwrap(Entry(q, p)).output)

\* (mutant) cached() waits for the entry of an id that is in progress
CachedReadableWaits(q, p) ==
    /\ Key(q, p) \in DOMAIN id_map => id_map[Key(q, p)] \in DOMAIN query_map
    /\ SharedReadable

\* cached() takes shared.read() only when it reaches last_rev_of
CachedReadable(q, p) ==
    (Key(q, p) \in DOMAIN id_map /\ id_map[Key(q, p)] \in DOMAIN query_map)
        => SharedReadable

\* (mutant) every call takes the readonly lock
NewFrameLocked(q, p) ==
    [q |-> q, p |-> p, pc |-> "lock", ip |-> 1,
     vals |-> <<>>, deps |-> {}, seen |-> {}, id |-> 0, guard |-> FALSE,
     pop_at |-> 0, valid_at |-> 0, out |-> 0, fail |-> "", cycle |-> <<>>,
     read_at |-> {}]

\* the frame of one try_query call that missed the cache (read_at: the
\* revisions at which the body read its inputs)
NewFrame(q, p) ==
    [q |-> q, p |-> p, pc |-> IF use_lock THEN "lock" ELSE "insert", ip |-> 1,
     vals |-> <<>>, deps |-> {}, seen |-> {}, id |-> 0, guard |-> FALSE,
     pop_at |-> 0, valid_at |-> 0, out |-> 0, fail |-> "", cycle |-> <<>>,
     read_at |-> {}]

Top(t) == frames[t][Len(frames[t])]
Depth(t) == Len(frames[t])
InFrame(t, pc) == frames[t] # <<>> /\ Top(t).pc = pc

\* the caller's frame after the callee returned value v
Resume(f, v, seen) ==
    [f EXCEPT !.vals = Append(@, v), !.ip = @ + 1, !.seen = @ \cup seen]

LastNone == [q |-> "", p |-> 0, how |-> "none", val |-> 0, cycle |-> <<>>, clean |-> FALSE]

\* RealSystem::try_query called by the driver: cached(), and on a miss the
\* call goes on to lock_readonly and try_insert_with
try_query(t, q, p) ==
    /\ Idle(t)
    /\ CachedReadable(q, p)
    /\ IF cached(q, p) # None
       THEN /\ last' = [last EXCEPT ![t] = [q |-> q, p |-> p, how |-> "hit",
                            val |-> Unwrap(cached(q, p)), cycle |-> <<>>, clean |-> TRUE]]
            /\ UNCHANGED frames
       ELSE /\ frames' = [frames EXCEPT ![t] = <<NewFrame(q, p)>>]
            /\ last' = [last EXCEPT ![t] = [LastNone EXCEPT !.q = q, !.p = p]]
    /\ UNCHANGED <<rev, inputs, input_revs, shared_lock, query_lock, id_map,
                   query_map, query_id, query_stack, mut, use_lock, rev_max>>

\* the same call made by a query body through the system handle
call_query(t) ==
    /\ InFrame(t, "body")
    /\ Top(t).ip <= Len(Body(Top(t).q, Top(t).p))
    /\ LET f == Top(t)
           o == Body(f.q, f.p)[f.ip]
       IN  /\ o.op = "call"
           /\ CachedReadable(o.q, o.p)
           /\ IF cached(o.q, o.p) # None
              THEN frames' = [frames EXCEPT ![t][Depth(t)] =
                                Resume(f, Unwrap(cached(o.q, o.p)), Unwrap(Entry(o.q, o.p)).seen)]
              ELSE frames' = [frames EXCEPT ![t] = Append(@, NewFrame(o.q, o.p))]
    /\ UNCHANGED <<rev, inputs, input_revs, shared_lock, query_lock, id_map,
                   query_map, query_id, query_stack, mut, last, use_lock, rev_max>>

\* Runtime::lock_readonly: query_lock.read()
lock_readonly(t) ==
    /\ InFrame(t, "lock")
    /\ QueryReadable
    /\ query_lock' = [query_lock EXCEPT !.readers[t] = @ + 1]
    /\ frames' = [frames EXCEPT ![t][Depth(t)].pc = "insert",
                                ![t][Depth(t)].guard = TRUE]
    /\ UNCHANGED <<rev, inputs, input_revs, shared_lock, id_map, query_map,
                   query_id, query_stack, mut, last, use_lock, rev_max>>

\* (mutant) the counter is read but not advanced
MintSame(ids, next, key) ==
    IF key \in DOMAIN ids
    THEN [id_map |-> ids, query_id |-> next, id |-> ids[key]]
    ELSE [id_map |-> Put(ids, key, next), query_id |-> next, id |-> next]

\* (mutant) entry(param).insert(fetch_add): a new id on every call
MintAgain(ids, next, key) ==
    [id_map |-> Put(ids, key, next), query_id |-> next + 1, id |-> next]

\* id_map.entry(type).or_default().entry(param).or_insert_with(fetch_add)
Mint(ids, next, key) ==
    IF key \in DOMAIN ids
    THEN [id_map |-> ids, query_id |-> next, id |-> ids[key]]
    ELSE [id_map |-> Put(ids, key, next), query_id |-> next + 1, id |-> next]

\* try_insert_with up to the body: resolve or mint the id, push it
try_insert_with(t) ==
    /\ InFrame(t, "insert")
    /\ LET f == Top(t)
           m == Mint(id_map, query_id, Key(f.q, f.p))
           r == Push(query_stack[t], m.id)
       IN  /\ id_map' = m.id_map
           /\ query_id' = m.query_id
           /\ query_stack' = [query_stack EXCEPT ![t] = r.active]
           /\ frames' = [frames EXCEPT ![t][Depth(t)] =
                IF r.ok
                THEN [f EXCEPT !.pc = "body", !.id = m.id, !.pop_at = r.pop_at]
                ELSE [f EXCEPT !.pc = "err", !.id = m.id, !.fail = "cycle",
                               !.cycle = r.cycle]]
    /\ UNCHANGED <<rev, inputs, input_revs, shared_lock, query_lock, query_map,
                   mut, last, use_lock, rev_max>>

\* the value a body sees for an absent optional input
Absent == 0 - 1

\* (mutant) a miss records the cell the key would get as a dependency
use_input_sentinel(t) ==
    /\ InFrame(t, "body")
    /\ Top(t).ip <= Len(Body(Top(t).q, Top(t).p))
    /\ SharedReadable
    /\ LET f == Top(t)
           o == Body(f.q, f.p)[f.ip]
           got == StorageGet(inputs[o.kind], o.key)
       IN  /\ o.op = "input"
           /\ frames' = [frames EXCEPT ![t][Depth(t)] =
                IF got # None
                THEN [f EXCEPT !.vals = Append(@, Unwrap(got)[1]), !.ip = @ + 1,
                               !.deps = @ \cup {Cell(o.kind, Unwrap(got)[2])},
                               !.seen = @ \cup {Cell(o.kind, Unwrap(got)[2])},
                               !.read_at = @ \cup {rev}]
                ELSE IF o.required
                     THEN [f EXCEPT !.pc = "err", !.fail = "panic"]
                     ELSE [f EXCEPT !.vals = Append(@, Absent), !.ip = @ + 1,
                                    !.deps = @ \cup {Cell(o.kind, inputs[o.kind].key_index)},
                                    !.read_at = @ \cup {rev}]]
    /\ UNCHANGED <<rev, inputs, input_revs, shared_lock, query_lock, id_map,
                   query_map, query_id, query_stack, mut, last, use_lock, rev_max>>

\* QueryContext::use_input: with_storage(get), then the dependency is recorded;
\* a required input that is absent panics in the database accessor (unwrap)
use_input(t) ==
    /\ InFrame(t, "body")
    /\ Top(t).ip <= Len(Body(Top(t).q, Top(t).p))
    /\ SharedReadable
    /\ LET f == Top(t)
           o == Body(f.q, f.p)[f.ip]
           got == StorageGet(inputs[o.kind], o.key)
       IN  /\ o.op = "input"
           /\ frames' = [frames EXCEPT ![t][Depth(t)] =
                IF got # None
                THEN [f EXCEPT !.vals = Append(@, Unwrap(got)[1]), !.ip = @ + 1,
                               !.deps = @ \cup {Cell(o.kind, Unwrap(got)[2])},
                               !.seen = @ \cup {Cell(o.kind, Unwrap(got)[2])},
                               !.read_at = @ \cup {rev}]
                ELSE IF o.required
                     THEN [f EXCEPT !.pc = "err", !.fail = "panic"]
                     ELSE [f EXCEPT !.vals = Append(@, Absent), !.ip = @ + 1,
                                    !.read_at = @ \cup {rev}]]
    /\ UNCHANGED <<rev, inputs, input_revs, shared_lock, query_lock, id_map,
                   query_map, query_id, query_stack, mut, last, use_lock, rev_max>>

\* the body has returned: valid_at = runtime.rev()
snapshot(t) ==
    /\ InFrame(t, "body")
    /\ Top(t).ip > Len(Body(Top(t).q, Top(t).p))
    /\ SharedReadable
    /\ frames' = [frames EXCEPT ![t][Depth(t)].pc = "store",
                                ![t][Depth(t)].valid_at = rev,
                                ![t][Depth(t)].out = Output(Top(t).q, Top(t).p, Top(t).vals)]
    /\ UNCHANGED <<rev, inputs, input_revs, shared_lock, query_lock, id_map,
                   query_map, query_id, query_stack, mut, last, use_lock, rev_max>>

QueryData(f) ==
    [output |-> f.out, valid_at |-> f.valid_at, dependencies |-> f.deps,
     seen |-> f.seen, by |-> Key(f.q, f.p)]

\* (mutant) the entry is not written
InsertDropped(m, k, v) == m

\* (mutant) the entry of an id is written once
InsertOnce(m, k, v) == IF k \in DOMAIN m THEN m ELSE Put(m, k, v)

\* query_map.insert: an existing entry of the id is replaced
Insert(m, k, v) == Put(m, k, v)

\* drop(guard); query_map.insert(query_id, QueryData)
store(t) ==
    /\ InFrame(t, "store")
    /\ LET f == Top(t)
       IN  IF GuardDropOk(query_stack[t], f.pop_at)
           THEN /\ query_stack' = [query_stack EXCEPT ![t] = Pop(@)]
                /\ query_map' = Insert(query_map, f.id, QueryData(f))
                /\ frames' = [frames EXCEPT ![t][Depth(t)].pc = "done"]
           ELSE /\ frames' = [frames EXCEPT ![t][Depth(t)].pc = "err",
                                            ![t][Depth(t)].fail = "panic",
                                            ![t][Depth(t)].pop_at = 0]
                /\ UNCHANGED <<query_stack, query_map>>
    /\ UNCHANGED <<rev, inputs, input_revs, shared_lock, query_lock, id_map,
                   query_id, mut, last, use_lock, rev_max>>

\* (mutant) the readonly guard is leaked
ReleaseReadLeak(t, f) == query_lock

\* the readonly guard of the frame, if it took one, is dropped
ReleaseRead(t, f) ==
    IF f.guard THEN [query_lock EXCEPT !.readers[t] = @ - 1] ELSE query_lock

\* try_query returns Ok(output): drop(guard), the caller goes on
finish(t) ==
    /\ InFrame(t, "done")
    /\ LET f == Top(t)
       IN  /\ query_lock' = ReleaseRead(t, f)
           /\ IF Depth(t) = 1
              THEN /\ frames' = [frames EXCEPT ![t] = <<>>]
                   /\ last' = [last EXCEPT ![t] = [q |-> f.q, p |-> f.p, how |-> "run",
                                   val |-> f.out, cycle |-> <<>>, clean |-> TRUE]]
              ELSE /\ frames' = [frames EXCEPT ![t] =
                        Append(SubSeq(@, 1, Depth(t) - 2),
                               Resume(@[Depth(t) - 1], f.out, f.seen))]
                   /\ UNCHANGED last
    /\ UNCHANGED <<rev, inputs, input_revs, shared_lock, id_map, query_map,
                   query_id, query_stack, mut, use_lock, rev_max>>

\* try_query returns Err (or unwinds): the ActiveQueryGuard of a frame that
\* pushed is dropped, then its readonly guard; the caller's body fails too
unwind(t) ==
    /\ InFrame(t, "err")
    /\ LET f == Top(t)
       IN  /\ query_lock' = ReleaseRead(t, f)
           /\ query_stack' = [query_stack EXCEPT ![t] =
                                IF f.pop_at > 0 THEN Pop(@) ELSE @]
           /\ IF Depth(t) = 1
              THEN /\ frames' = [frames EXCEPT ![t] = <<>>]
                   /\ last' = [last EXCEPT ![t] = [q |-> f.q, p |-> f.p, how |-> f.fail,
                                   val |-> 0, cycle |-> f.cycle, clean |-> FALSE]]
              ELSE /\ frames' = [frames EXCEPT ![t] =
                        Append(SubSeq(@, 1, Depth(t) - 2),
                               [@[Depth(t) - 1] EXCEPT !.pc = "err", !.fail = f.fail,
                                                       !.cycle = f.cycle])]
                   /\ UNCHANGED last
    /\ UNCHANGED <<rev, inputs, input_revs, shared_lock, id_map, query_map,
                   query_id, mut, use_lock, rev_max>>

(***************************************************************************)
(* Specifications.                                                         *)
(***************************************************************************)
\* Runtime::default()
RuntimeDefault ==
    [rev |-> RevisionNew, inputs |-> [k \in Kinds |-> StorageDefault],
     input_revs |-> EmptyMap]

\* a whole set_input call on a runtime nobody else uses
SetInputDone(st, kind, key, value) ==
    LET r == StorageSet(st.inputs[kind], key, value)
    IN  [rev |-> Increment(st.rev),
         inputs |-> [st.inputs EXCEPT ![kind] = r.storage],
         input_revs |-> Stamped(st.input_revs, Cell(kind, r.index), Increment(st.rev))]

RECURSIVE SetInputs(_, _)
SetInputs(st, calls) ==
    IF calls = <<>> THEN st
    ELSE SetInputs(SetInputDone(st, calls[1][1], calls[1][2], calls[1][3]), Tail(calls))

\* RealSystem::new: a, b, c and the four parametrized cells are set to 0,
\* optional is left unset
RealSystemNew ==
    SetInputs(RuntimeDefault,
              << <<AInput, 0, 0>>, <<BInput, 0, 0>>, <<CInput, 0, 0>>,
                 <<ParametrizedInput, 0, 0>>, <<ParametrizedInput, 1, 0>>,
                 <<ParametrizedInput, 2, 0>>, <<ParametrizedInput, 3, 0>> >>)

\* the state in which a constructed system st is handed to the threads, which
\* mutate it at most n times
InitWith(st, n) ==
    /\ rev = st.rev
    /\ rev_max = st.rev + n
    /\ inputs = st.inputs
    /\ input_revs = st.input_revs
    /\ shared_lock = 0
    /\ query_lock = [writer |-> 0, readers |-> [t \in Threads |-> 0]]
    /\ id_map = EmptyMap
    /\ query_map = EmptyMap
    /\ query_id = 0
    /\ query_stack = [t \in Threads |-> <<>>]
    /\ frames = [t \in Threads |-> <<>>]
    /\ mut = [t \in Threads |-> MutIdle]
    /\ last = [t \in Threads |-> LastNone]

\* the steps inside set_input and remove_input
Mutate(t) ==
    \/ acquire(t)
    \/ storage_step(t)
    \/ increment(t)
    \/ stamp(t)

\* the steps inside a try_query that missed the cache
Run(t) ==
    \/ lock_readonly(t)
    \/ try_insert_with(t)
    \/ use_input(t)
    \/ snapshot(t)
    \/ store(t)
    \/ finish(t)
    \/ unwind(t)

\* Spec: the system of src/tests/parallel.rs.  Thread 1 owns the system and
\* sets b or removes a; every thread (the owner and its clones) calls longer,
\* with or without the readonly lock.
Main == 1

Init ==
    /\ InitWith(RealSystemNew, MaxMut)
    /\ use_lock \in BOOLEAN

Next ==
    \/ \E v \in Values : set_input(Main, BInput, 0, v)
    \/ remove_input(Main, AInput, 0)
    \/ Mutate(Main)
    \/ \E t \in Threads :
        \/ try_query(t, "longer", 0)
        \/ Run(t)

Spec == Init /\ [][Next]_vars

\* SpecSeq: one thread, as in src/tests/simple.rs: calls of longer, directly
\* and through delegate, one after the other, between mutations of a and b
InitSeq ==
    /\ InitWith(RealSystemNew, MaxMutSeq)
    /\ use_lock \in BOOLEAN

NextSeq ==
    \/ \E k \in {AInput, BInput}, v \in Values : set_input(Main, k, 0, v)
    \/ remove_input(Main, AInput, 0)
    \/ Mutate(Main)
    \/ try_query(Main, "longer", 0)
    \/ try_query(Main, "delegate", 0)
    \/ call_query(Main)
    \/ Run(Main)

SpecSeq == InitSeq /\ [][NextSeq]_vars

\* SpecParam: one thread, the parametrized query of src/tests/simple.rs with
\* Param::Foo and Param::Bar, and sum_abc with the unit parameter
InitParam ==
    /\ InitWith(RealSystemNew, MaxMutParam)
    /\ use_lock = TRUE

NextParam ==
    \/ \E p \in {0, 1}, v \in Values : set_input(Main, ParametrizedInput, p, v)
    \/ remove_input(Main, ParametrizedInput, 0)
    \/ Mutate(Main)
    \/ \E p \in {0, 1} : try_query(Main, "square_parametrized", p)
    \/ try_query(Main, "sum_abc", 0)
    \/ Run(Main)

SpecParam == InitParam /\ [][NextParam]_vars

\* SpecRuntime: a bare Runtime::new() and its clones, every thread setting and
\* removing inputs
InitRuntime ==
    /\ InitWith(RuntimeDefault, MaxMutSeq)
    /\ use_lock = TRUE

NextRuntime ==
    \E t \in Threads :
        \/ \E v \in Values : set_input(t, AInput, 0, v)
        \/ \E p \in {0, 1}, v \in Values : set_input(t, ParametrizedInput, p, v)
        \/ remove_input(t, AInput, 0)
        \/ \E p \in {0, 1} : remove_input(t, ParametrizedInput, p)
        \/ Mutate(t)

SpecRuntime == InitRuntime /\ [][NextRuntime]_vars

\* SpecCycle: the system of src/tests/cycle.rs: one thread calls foo
InitCycle ==
    /\ InitWith(RealSystemNew, 0)
    /\ use_lock = TRUE

NextCycle ==
    \/ \E n \in {1, 2, MaxN} : try_query(Main, "foo", n)
    \/ call_query(Main)
    \/ lock_readonly(Main)
    \/ try_insert_with(Main)
    \/ snapshot(Main)
    \/ store(Main)
    \/ finish(Main)
    \/ unwind(Main)

SpecCycle == InitCycle /\ [][NextCycle]_vars

\* SpecFail: one thread whose calls can fail: longer panics once a has been
\* removed, foo(2) always ends in a cycle
InitFail ==
    /\ InitWith(RealSystemNew, MaxMutSeq)
    /\ use_lock \in BOOLEAN

NextFail ==
    \/ \E v \in Values : set_input(Main, AInput, 0, v)
    \/ remove_input(Main, AInput, 0)
    \/ Mutate(Main)
    \/ try_query(Main, "longer", 0)
    \/ try_query(Main, "foo", 2)
    \/ call_query(Main)
    \/ Run(Main)

SpecFail == InitFail /\ [][NextFail]_vars

\* SpecIds: the owner and its clones call queries of two types and two
\* parameters at the same time (longer(0), foo(0), foo(1)), without the
\* readonly lock, while the owner removes a: the entry of longer is
\* invalidated and the calls of longer that follow panic
InitIds ==
    /\ InitWith(RealSystemNew, MaxMut)
    /\ use_lock = FALSE

NextIds ==
    \/ remove_input(Main, AInput, 0)
    \/ Mutate(Main)
    \/ \E t \in Threads :
        \/ try_query(t, "longer", 0)
        \/ \E n \in {0, 1} : try_query(t, "foo", n)
        \/ try_insert_with(t)
        \/ use_input(t)
        \/ snapshot(t)
        \/ store(t)
        \/ finish(t)
        \/ unwind(t)

SpecIds == InitIds /\ [][NextIds]_vars

\* SpecLive: the system of consistency_with_locking under fair scheduling:
\* every thread that can take a step of its call eventually takes one, and a
\* lock that stays free for a waiting thread is eventually granted to it
InitLive ==
    /\ InitWith(RealSystemNew, MaxMut)
    /\ use_lock = TRUE

NextLive ==
    \/ \E v \in Values : set_input(Main, BInput, 0, v)
    \/ remove_input(Main, AInput, 0)
    \/ Mutate(Main)
    \/ \E t \in Threads :
        \/ try_query(t, "longer", 0)
        \/ Run(t)

Fairness ==
    /\ WF_vars(Mutate(Main))
    /\ \A t \in Threads : WF_vars(Run(t))

SpecLive == InitLive /\ [][NextLive]_vars /\ Fairness

\* SpecOpt: one thread and the optional input, which RealSystem::new leaves
\* unset: the input is set and removed between calls of a query that reads
\* it and of foo(1), whose body reads nothing
InitOpt ==
    /\ InitWith(RealSystemNew, MaxMutSeq)
    /\ use_lock \in BOOLEAN

NextOpt ==
    \/ \E v \in Values : set_input(Main, OptionalInput, 0, v)
    \/ remove_input(Main, OptionalInput, 0)
    \/ Mutate(Main)
    \/ try_query(Main, "optional", 0)
    \/ try_query(Main, "foo", 1)
    \/ lock_readonly(Main)
    \/ try_insert_with(Main)
    \/ use_input(Main)
    \/ snapshot(Main)
    \/ store(Main)
    \/ finish(Main)

SpecOpt == InitOpt /\ [][NextOpt]_vars

\* SpecNest: one thread runs queries that call queries: delegate calls
\* longer, which panics once a has been removed, and foo(2) runs through
\* bar(1), baz(1) and bar(2) into a cycle
InitNest ==
    /\ InitWith(RealSystemNew, MaxMut)
    /\ use_lock \in BOOLEAN

NextNest ==
    \/ remove_input(Main, AInput, 0)
    \/ Mutate(Main)
    \/ try_query(Main, "delegate", 0)
    \/ try_query(Main, "foo", 2)
    \/ call_query(Main)
    \/ Run(Main)

SpecNest == InitNest /\ [][NextNest]_vars

\* SpecClones: the owner and its clones each call foo(2) under the readonly
\* lock; the call runs through bar(1), baz(1) and bar(2) into a cycle on the
\* caller's own stack, while the owner sets b
InitClones ==
    /\ InitWith(RealSystemNew, MaxMut)
    /\ use_lock = TRUE

NextClones ==
    \/ \E v \in Values : set_input(Main, BInput, 0, v)
    \/ Mutate(Main)
    \/ \E t \in Threads :
        \/ try_query(t, "foo", 2)
        \/ call_query(t)
        \/ lock_readonly(t)
        \/ try_insert_with(t)
        \/ unwind(t)

SpecClones == InitClones /\ [][NextClones]_vars

\* SpecFresh: the owner sets and removes the optional input, which
\* RealSystem::new leaves unset, while the owner and its clones call, without
\* the readonly lock, a query that reads it: the cell is created, and
\* removed, while bodies read
InitFresh ==
    /\ InitWith(RealSystemNew, MaxMutParam)
    /\ use_lock = FALSE

NextFresh ==
    \/ \E v \in Values : set_input(Main, OptionalInput, 0, v)
    \/ remove_input(Main, OptionalInput, 0)
    \/ Mutate(Main)
    \/ \E t \in Threads :
        \/ try_query(t, "optional", 0)
        \/ try_insert_with(t)
        \/ use_input(t)
        \/ snapshot(t)
        \/ store(t)
        \/ finish(t)

SpecFresh == InitFresh /\ [][NextFresh]_vars

\* SpecNested: SpecClones under fair scheduling: a thread that can take a
\* step of its call, or of its mutation, eventually takes one
FairnessNested ==
    /\ WF_vars(Mutate(Main))
    /\ \A t \in Threads : WF_vars(call_query(t) \/ Run(t))

SpecNested == InitClones /\ [][NextClones]_vars /\ FairnessNested

(***************************************************************************)
(* The reference the tests compare against: SystemModel::query runs the    *)
(* body on the current inputs, with no cache (src/tests/common.rs).        *)
(***************************************************************************)
\* every input the body (and the bodies it calls) reads is present
RECURSIVE Readable(_, _)
Readable(q, p) ==
    \A i \in 1..Len(Body(q, p)) :
        LET o == Body(q, p)[i]
        IN  IF o.op = "input" THEN StorageGet(inputs[o.kind], o.key) # None
            ELSE Readable(o.q, o.p)

RECURSIVE Eval(_, _)
Eval(q, p) ==
    Output(q, p, [i \in 1..Len(Body(q, p)) |->
        LET o == Body(q, p)[i]
        IN  IF o.op = "input" THEN Unwrap(StorageGet(inputs[o.kind], o.key))[1]
            ELSE Eval(o.q, o.p)])

(***************************************************************************)
(* Vocabulary of the properties.                                           *)
(***************************************************************************)
\* the (query, param) pairs that have a stored entry
Stored == {k \in DOMAIN id_map : id_map[k] \in DOMAIN query_map}
EntryOf(k) == query_map[id_map[k]]
IsHit(k) == cached(k[1], k[2]) # None

\* thread t completes a set_input or a successful remove_input in this step
Commits(t) == mut[t].pc = "bumped" /\ mut'[t].pc = "idle"
CommitCell(t) == Cell(mut[t].kind, mut[t].key_index)

\* thread t writes the entry of the call on top of its stack in this step
Stores(t) == InFrame(t, "store") /\ frames'[t] # <<>> /\ frames'[t][Depth(t)].pc = "done"

\* the queries that read inputs only through their own context
Flat == {k \in DOMAIN id_map : \A i \in 1..Len(Body(k[1], k[2])) :
                                  Body(k[1], k[2])[i].op = "input"}

(***************************************************************************)
(* C1.  A cached value is returned only if no input the query transitively *)
(* consulted has changed since: once the entry of q is stored and a cell   *)
(* that q consulted, itself or through a query it invoked, is set by       *)
(* set_input, cached(q, p) returns None.                                   *)
(***************************************************************************)
C1_TransitiveInvalidation ==
    [][\A t \in Threads : Commits(t) /\ mut[t].op = "set" =>
          \A k \in Stored : CommitCell(t) \in EntryOf(k).seen => ~IsHit(k)']_vars

(***************************************************************************)
(* C4.  Invalidation on dependency change: when set_input completes on a   *)
(* cell of a stored entry's dependency set, whatever value it wrote,       *)
(* cached returns None for that entry; a miss on a stored entry turns into *)
(* a hit only by a new execution writing the entry; and an execution       *)
(* stores the value computed from the inputs as they are then.             *)
(***************************************************************************)
C4_InvalidationOnChange ==
    [][/\ \A t \in Threads : Commits(t) /\ mut[t].op = "set" =>
            \A k \in Stored : CommitCell(t) \in EntryOf(k).dependencies => ~IsHit(k)'
       /\ \A k \in Stored : ~IsHit(k) /\ IsHit(k)' =>
            \E t \in Threads : Stores(t) /\ Top(t).id = id_map[k]
       /\ \A t \in Threads : Stores(t) =>
            query_map'[Top(t).id].output = Eval(Top(t).q, Top(t).p)']_vars

\* a set_input rewrote a dependency with the value it had: the stored output
\* is still the right one, one revision later, and the entry is a miss
C4_Witness ==
    \E k \in Stored \cap Flat :
        /\ mut[Main].pc = "idle"
        /\ ~IsHit(k)
        /\ Readable(k[1], k[2])
        /\ EntryOf(k).output = Eval(k[1], k[2])
        /\ rev = EntryOf(k).valid_at + 1

(***************************************************************************)
(* C5.  Determinism under no mutation: when a call of (q, p) has returned  *)
(* a value and the same thread calls (q, p) again with no set_input or     *)
(* remove_input committed in between, the second call is a cache hit (the  *)
(* body is not executed again) and returns the same value.                 *)
(***************************************************************************)
Returned(t) == last[t].how \in {"hit", "run"}

C5_DeterminismNoMutation ==
    [][\A t \in Threads : Idle(t) /\ Returned(t) /\ last[t].clean =>
          /\ frames'[t] # <<>> =>
                Key(frames'[t][1].q, frames'[t][1].p) # Key(last[t].q, last[t].p)
          /\ (frames'[t] = <<>> /\ last'[t].how = "hit"
                /\ Key(last'[t].q, last'[t].p) = Key(last[t].q, last[t].p)) =>
                last'[t].val = last[t].val]_vars

\* the second of two calls with no mutation in between: the first executed
\* the body (its entry was written at this revision), the second was a hit
C5_Witness ==
    /\ last[Main].how = "hit"
    /\ last[Main].clean
    /\ Key(last[Main].q, last[Main].p) \in Stored
    /\ EntryOf(Key(last[Main].q, last[Main].p)).valid_at = rev
    /\ rev > rev_max - MaxMutSeq

(***************************************************************************)
(* C2.  In every interleaving of set_input and remove_input with query     *)
(* executions, whenever cached(q, p) returns Some(v) for a query that      *)
(* reads only present cells through its own context, v is the value the    *)
(* query computes from the current inputs.                                 *)
(***************************************************************************)
C2_HitIsCurrent ==
    \A k \in Stored \cap Flat :
        (SharedReadable /\ IsHit(k) /\ Readable(k[1], k[2])) =>
            Unwrap(cached(k[1], k[2])) = Eval(k[1], k[2])

(***************************************************************************)
(* C3.  Cache freshness: cached(q, p) returns the stored output only when  *)
(* an entry exists for the key and every cell in its dependency set has a  *)
(* last-changed revision no greater than the entry's valid_at; an entry    *)
(* with a dependency changed after valid_at yields None.                   *)
(***************************************************************************)
C3_CacheFreshness ==
    \A k \in DOMAIN id_map :
        /\ IsHit(k) =>
              /\ k \in Stored
              /\ cached(k[1], k[2]) = Some(EntryOf(k).output)
              /\ \A d \in EntryOf(k).dependencies : input_revs[d] <= EntryOf(k).valid_at
        /\ (k \in Stored /\ \E d \in EntryOf(k).dependencies :
                                input_revs[d] > EntryOf(k).valid_at)
              => cached(k[1], k[2]) = None

\* a thread was served from an entry one of whose cells changed exactly at
\* the entry's valid_at
C3_Witness ==
    \E t \in Threads :
        /\ last[t].how = "hit"
        /\ Key(last[t].q, last[t].p) \in Stored
        /\ IsHit(Key(last[t].q, last[t].p))
        /\ \E d \in EntryOf(Key(last[t].q, last[t].p)).dependencies :
              input_revs[d] = EntryOf(Key(last[t].q, last[t].p)).valid_at

(***************************************************************************)
(* C6.  A set_input or successful remove_input on a cell outside an        *)
(* entry's dependency set leaves the entry valid: cached still returns the *)
(* same stored output after the mutation.  Step by step: a served entry    *)
(* stays served with the same output through every step of a mutation,     *)
(* except the completion of a mutation of one of its dependency cells.     *)
(***************************************************************************)
C6_UnrelatedMutation ==
    [][mut' # mut =>
          \A k \in Stored :
              IsHit(k) =>
                  \/ /\ IsHit(k)'
                     /\ cached(k[1], k[2])' = cached(k[1], k[2])
                  \/ \E t \in Threads :
                        /\ Commits(t)
                        /\ CommitCell(t) \in EntryOf(k).dependencies]_vars

\* an entry that read inputs is still served after a later mutation
C6_Witness ==
    \E k \in Stored :
        /\ mut[Main].pc = "idle"
        /\ IsHit(k)
        /\ EntryOf(k).dependencies # {}
        /\ rev > EntryOf(k).valid_at
        /\ \E c \in DOMAIN input_revs : input_revs[c] > EntryOf(k).valid_at

(***************************************************************************)
(* C7.  Entries are keyed by (query type, parameter): the entry under a    *)
(* key was computed by a call with that very type and parameter, distinct  *)
(* keys have distinct ids, and storing the entry of one key neither        *)
(* changes what cached returns for any other key nor turns its miss into   *)
(* a hit.                                                                  *)
(***************************************************************************)
C7_KeyedByTypeAndParam ==
    /\ [](/\ \A k \in Stored : EntryOf(k).by = k
          /\ \A k1, k2 \in DOMAIN id_map : id_map[k1] = id_map[k2] => k1 = k2)
    /\ [][\A t \in Threads : Stores(t) =>
            \A k \in DOMAIN id_map' :
                k # Key(Top(t).q, Top(t).p) =>
                    cached(k[1], k[2])' = cached(k[1], k[2])]_vars

\* both parameters of one query type and a second query type with the
\* parameter of the first are stored and served, with different outputs
C7_Witness ==
    /\ {Key("square_parametrized", 0), Key("square_parametrized", 1),
        Key("sum_abc", 0)} \subseteq Stored
    /\ IsHit(Key("square_parametrized", 0))
    /\ IsHit(Key("square_parametrized", 1))
    /\ IsHit(Key("sum_abc", 0))
    /\ cached("square_parametrized", 0) # cached("square_parametrized", 1)
    /\ cached("square_parametrized", 1) # cached("sum_abc", 0)

(***************************************************************************)
(* C8.  Revision monotonicity: the revision starts at 1, never decreases,  *)
(* changes only inside a mutation, and every successful set_input or       *)
(* remove_input leaves it exactly one above what it was when the call      *)
(* took the locks, so that the revision a mutation stamps is greater than  *)
(* every revision stamped before, whichever thread or clone issued it; a   *)
(* remove_input of an absent key leaves it unchanged.                      *)
(***************************************************************************)
C8_RevisionMonotonic ==
    /\ rev = START
    /\ [][/\ rev' >= rev
          /\ rev' # rev => \E t \in Threads : mut[t].pc = "stored" /\ mut'[t].pc = "bumped"
          /\ \A t \in Threads :
                /\ Commits(t) =>
                      /\ rev' = mut[t].rev_in + 1
                      /\ \A c \in DOMAIN input_revs : input_revs[c] < rev'
                /\ (mut[t].pc = "locked" /\ mut'[t].pc = "idle") =>
                      rev' = mut[t].rev_in]_vars

\* a second thread is completing a mutation that follows a completed one
C8_Witness ==
    \E t \in Threads \ {Main} :
        /\ mut[t].pc = "bumped"
        /\ mut[t].rev_in > START
        /\ rev = mut[t].rev_in + 1
        /\ \E c \in DOMAIN input_revs : input_revs[c] = mut[t].rev_in

(***************************************************************************)
(* C9.  Stamp coherence: when set_input or a successful remove_input on a  *)
(* cell completes, the cell's last-changed revision equals the current     *)
(* revision; and whenever the shared read lock can be held, no mutation is *)
(* between its table update and its stamp: every live cell is stamped, no  *)
(* stamp exceeds the revision, and the revision itself is some cell's      *)
(* stamp.                                                                  *)
(***************************************************************************)
C9_StampCoherence ==
    /\ [](SharedReadable =>
            /\ \A t \in Threads : mut[t].pc \notin {"stored", "bumped"}
            /\ \A kind \in Kinds : \A key \in DOMAIN inputs[kind].index_map :
                  Cell(kind, inputs[kind].index_map[key]) \in DOMAIN input_revs
            /\ \A c \in DOMAIN input_revs : input_revs[c] <= rev
            /\ \E c \in DOMAIN input_revs : input_revs[c] = rev)
    /\ [][\A t \in Threads : Commits(t) =>
            /\ input_revs'[CommitCell(t)] = rev'
            /\ ~SharedReadable
            /\ SharedReadable']_vars

\* a reader is in the middle of a body right after a mutation has completed
C9_Witness ==
    /\ SharedReadable
    /\ rev > rev_max - MaxMut
    /\ \E c \in DOMAIN input_revs : input_revs[c] = rev
    /\ \E t \in Threads : InFrame(t, "body") /\ Top(t).deps # {}

(***************************************************************************)
(* C10.  Cycle reportage: when the id of the query being inserted is       *)
(* already at position i of the caller's stack, the insertion fails with   *)
(* the cycle stack[i..] followed by that id, the stack is left as it was,  *)
(* and the cycle names, in call order, the calls from the first call of    *)
(* the repeated query down to the repeated call; otherwise the id is       *)
(* pushed on top and the body runs.  The cycle reaches the driver          *)
(* unchanged: foo(12) yields bar(2), foo(2), bar(1), baz(1), bar(2).       *)
(***************************************************************************)
KeyOf(id) == CHOOSE k \in DOMAIN id_map : id_map[k] = id

C10_CycleReportage ==
    [][\A t \in Threads :
          /\ (InFrame(t, "insert") /\ frames'[t] # frames[t]) =>
                LET f == Top(t)
                    g == frames'[t][Depth(t)]
                    id == id_map'[Key(f.q, f.p)]
                    stack == query_stack[t]
                    at == {i \in 1..Len(stack) : stack[i] = id}
                IN  IF at # {}
                    THEN /\ g.pc = "err" /\ g.fail = "cycle"
                         /\ \E i \in at :
                               /\ g.cycle = SubSeq(stack, i, Len(stack)) \o <<id>>
                               /\ \A j \in 1..(Len(g.cycle) - 1) :
                                     Key(frames[t][i + j - 1].q, frames[t][i + j - 1].p)
                                         = CHOOSE k \in DOMAIN id_map' : id_map'[k] = g.cycle[j]
                         /\ g.cycle[1] = id /\ g.cycle[Len(g.cycle)] = id
                         /\ query_stack'[t] = stack
                    ELSE /\ g.pc = "body"
                         /\ query_stack'[t] = Append(stack, id)
          /\ (InFrame(t, "err") /\ Top(t).fail = "cycle" /\ frames'[t] # frames[t]) =>
                IF Depth(t) = 1
                THEN last'[t].how = "cycle" /\ last'[t].cycle = Top(t).cycle
                ELSE /\ frames'[t][Depth(t) - 1].fail = "cycle"
                     /\ frames'[t][Depth(t) - 1].cycle = Top(t).cycle]_vars

\* the driver got the cycle of foo(12)
C10_Witness ==
    /\ last[Main].how = "cycle"
    /\ last[Main].q = "foo"
    /\ last[Main].p = 12
    /\ [j \in 1..Len(last[Main].cycle) |-> KeyOf(last[Main].cycle[j])]
          = <<Key("bar", 2), Key("foo", 2), Key("bar", 1), Key("baz", 1), Key("bar", 2)>>

\* the calls of a chain whose ActiveQueryGuard is alive, outermost first
Held(f) == f.pop_at > 0 /\ f.pc # "done"
ActiveOf(fs) == [i \in 1..Len(SelectSeq(fs, Held)) |-> SelectSeq(fs, Held)[i].id]

\* thread t leaves the call on top of its chain with an error or a panic
Fails(t) == InFrame(t, "err") /\ frames'[t] # frames[t]

(***************************************************************************)
(* C11.  Failed executions leave no trace except the minted id.  The       *)
(* query stack always holds exactly the ids of the calls in progress; when *)
(* a call ends with a cycle, an error of its body or a panic, query_map is *)
(* not touched, the stack is what it was before the call (empty for a      *)
(* call made by the driver), and id_map still maps the key to the call's   *)
(* id; query_map is only ever written by a call that completes, never      *)
(* under the id of a call still in progress on the writing thread; and a   *)
(* later attempt for a key that has an id reuses it without minting.       *)
(***************************************************************************)
C11_FailedExecution ==
    /\ [](\A t \in Threads : query_stack[t] = ActiveOf(frames[t]))
    /\ [][\A t \in Threads :
            /\ Fails(t) =>
                  /\ query_map' = query_map
                  /\ id_map' = id_map
                  /\ Key(Top(t).q, Top(t).p) \in DOMAIN id_map
                  /\ id_map[Key(Top(t).q, Top(t).p)] = Top(t).id
                  /\ query_stack'[t] = ActiveOf(SubSeq(frames[t], 1, Depth(t) - 1))
                  /\ Depth(t) = 1 => query_stack'[t] = <<>>
            /\ Stores(t) =>
                  \A i \in 1..(Depth(t) - 1) : frames[t][i].id # Top(t).id
            /\ (InFrame(t, "insert") /\ frames'[t] # frames[t]
                    /\ Key(Top(t).q, Top(t).p) \in DOMAIN id_map) =>
                  /\ id_map' = id_map
                  /\ query_id' = query_id
                  /\ frames'[t][Depth(t)].id = id_map[Key(Top(t).q, Top(t).p)]]_vars
    /\ [][query_map' # query_map => \E t \in Threads : Stores(t)]_vars

\* longer has panicked with its earlier entry still stored, after a cycle left
\* foo(2) with an id and no entry
C11_Witness ==
    /\ last[Main].how = "panic"
    /\ frames[Main] = <<>>
    /\ query_stack[Main] = <<>>
    /\ Key("longer", 0) \in Stored
    /\ Key("foo", 2) \in DOMAIN id_map \ Stored

\* QueryCache::id
id(q, p) == IF Key(q, p) \in DOMAIN id_map THEN Some(id_map[Key(q, p)]) ELSE None

\* thread t resolves or mints the id of the call on top of its chain
Inserts(t) == InFrame(t, "insert") /\ frames'[t] # frames[t]

(***************************************************************************)
(* C12.  Id stability and uniqueness: once a key has an id, id(q, p) never *)
(* changes, whatever executes, fails, is invalidated or runs at the same   *)
(* time; every try_insert_with works under the id that id(q, p) returns;   *)
(* and two different keys never have the same id.                          *)
(***************************************************************************)
C12_IdStability ==
    /\ [](/\ \A k1, k2 \in DOMAIN id_map : id_map[k1] = id_map[k2] => k1 = k2
          /\ \A k \in DOMAIN id_map : id_map[k] < query_id
          /\ \A t \in Threads : \A i \in 1..Len(frames[t]) :
                frames[t][i].pc \notin {"lock", "insert"} =>
                    id(frames[t][i].q, frames[t][i].p) = Some(frames[t][i].id))
    /\ [][/\ \A k \in DOMAIN id_map : id(k[1], k[2])' = id(k[1], k[2])
          /\ \A t \in Threads : Inserts(t) =>
                /\ Some(frames'[t][Depth(t)].id) = id(Top(t).q, Top(t).p)'
                /\ id(Top(t).q, Top(t).p) # None =>
                      id(Top(t).q, Top(t).p)' = id(Top(t).q, Top(t).p)]_vars

\* all three keys have ids; a call of longer has panicked, its entry is
\* stored but no longer valid, and another thread is executing longer again
C12_Witness ==
    /\ DOMAIN id_map = {Key("longer", 0), Key("foo", 0), Key("foo", 1)}
    /\ Key("longer", 0) \in Stored
    /\ ~IsHit(Key("longer", 0))
    /\ \E t, u \in Threads :
          /\ last[t].how = "panic"
          /\ frames[u] # <<>>
          /\ Top(u).q = "longer"
          /\ Top(u).pc = "body"

\* the ids on the query stack of some thread
OnStack == UNION {Range(query_stack[t]) : t \in Threads}

\* the id has a completed entry or is executing on some thread
Covered(i) == i \in DOMAIN query_map \/ i \in OnStack

Guards(t) == Cardinality({i \in 1..Len(frames[t]) : frames[t][i].guard})

\* thread t is inside the critical section of set_input or remove_input
Critical(t) == mut[t].pc \in {"locked", "stored", "bumped"}

(***************************************************************************)
(* C14.  Snapshot lock exclusion: while a ReadOnlyGuard of any clone is    *)
(* alive no set_input or remove_input is inside its critical section, and  *)
(* no step changes the revision, an input table or input_revs; the lock    *)
(* counts exactly the guards that are alive.                               *)
(***************************************************************************)
C14_LockExclusion ==
    /\ [](/\ \A t \in Threads : query_lock.readers[t] = Guards(t)
          /\ (\E u \in Threads : Guards(u) > 0) => \A t \in Threads : ~Critical(t))
    /\ [][(\E u \in Threads : Guards(u) > 0) =>
            /\ rev' = rev
            /\ inputs' = inputs
            /\ input_revs' = input_revs]_vars

\* a mutation waits in query_lock.write() while a clone runs a body under
\* its guard
C14_Witness ==
    /\ mut[Main].pc = "wait"
    /\ \E u \in Threads : Guards(u) > 0 /\ InFrame(u, "body") /\ Top(u).deps # {}

\* the calls in progress that run under a ReadOnlyGuard
Guarded ==
    UNION {{<<t, i>> : i \in {j \in 1..Len(frames[t]) : frames[t][j].guard}} : t \in Threads}

(***************************************************************************)
(* C15.  Snapshot consistency with the lock: for a call whose body runs    *)
(* under a lock_readonly guard, every input read of the body happened at   *)
(* the current revision, which is also the revision of the valid_at        *)
(* snapshot; the values read are those of that revision, so the output is  *)
(* what the query computes from them, and the entry it stores is valid at  *)
(* exactly that revision.                                                  *)
(***************************************************************************)
C15_SnapshotConsistency ==
    \A g \in Guarded :
        LET f == frames[g[1]][g[2]]
        IN  /\ f.read_at \subseteq {rev}
            /\ f.pc = "body" =>
                  \A i \in 1..Len(f.vals) :
                      Body(f.q, f.p)[i].op = "input" =>
                          LET got == StorageGet(inputs[Body(f.q, f.p)[i].kind],
                                                Body(f.q, f.p)[i].key)
                          IN  got # None /\ Unwrap(got)[1] = f.vals[i]
            /\ f.pc \in {"store", "done"} =>
                  /\ f.valid_at = rev
                  /\ f.read_at \subseteq {f.valid_at}
                  /\ Readable(f.q, f.p)
                  /\ f.out = Eval(f.q, f.p)
            /\ f.pc = "done" =>
                  /\ query_map[f.id].valid_at = rev
                  /\ query_map[f.id].output = f.out
                  /\ IsHit(Key(f.q, f.p))

\* a set_b that changes b waits while a call of longer, having read a and b
\* under its guard, is about to store the sum of the old values
C15_Witness ==
    /\ mut[Main].pc = "wait"
    /\ mut[Main].op = "set"
    /\ mut[Main].kind = BInput
    /\ StorageGet(inputs[BInput], 0) # None
    /\ Unwrap(StorageGet(inputs[BInput], 0))[1] # mut[Main].value
    /\ \E u \in Threads :
          /\ InFrame(u, "store")
          /\ Top(u).guard
          /\ Top(u).read_at = {rev}
          /\ Top(u).out = Eval("longer", 0)

\* thread t reads an input in the body on top of its chain
Reads(t) ==
    /\ InFrame(t, "body")
    /\ frames'[t] # frames[t]
    /\ Top(t).ip <= Len(Body(Top(t).q, Top(t).p))
    /\ Body(Top(t).q, Top(t).p)[Top(t).ip].op = "input"

(***************************************************************************)
(* C16.  Torn reads without the lock: when bodies run without              *)
(* lock_readonly a mutation never waits for a body, so it can take effect  *)
(* between two reads of one body.  Each read returns the value its cell    *)
(* has at the revision of the read, the revisions of successive reads      *)
(* never decrease, and the output is computed from the values read: the    *)
(* result of a + b combines a and b of possibly different revisions, and   *)
(* nothing else.                                                           *)
(***************************************************************************)
C16_TornReads ==
    /\ [](~use_lock =>
            \A t \in Threads : (mut[t].pc = "wait" /\ SharedReadable) => ENABLED acquire(t))
    /\ [](\A t \in Threads : \A i \in 1..Len(frames[t]) :
            frames[t][i].pc = "store" =>
                frames[t][i].out = Output(frames[t][i].q, frames[t][i].p, frames[t][i].vals))
    /\ [][\A t \in Threads : Reads(t) =>
            LET f == Top(t)
                o == Body(f.q, f.p)[f.ip]
                got == StorageGet(inputs[o.kind], o.key)
                g == frames'[t][Depth(t)]
            IN  got # None =>
                    /\ g.vals = Append(f.vals, Unwrap(got)[1])
                    /\ g.read_at = f.read_at \cup {rev}
                    /\ \A r \in f.read_at : r <= rev]_vars

\* inconsistency_without_locking: a was read before set_b took effect and b
\* after it; the body returns the new sum, which is not the old one
C16_Witness ==
    /\ ~use_lock
    /\ \E u \in Threads :
          /\ InFrame(u, "store")
          /\ Top(u).q = "longer"
          /\ Top(u).read_at = {rev - 1, rev}
          /\ Top(u).out = Eval("longer", 0)
          /\ Top(u).out # 0

\* thread t waits in query_lock.write() while a ReadOnlyGuard is alive
Blocked(t) == mut[t].pc = "wait" /\ \E u \in Threads : Guards(u) > 0

\* the value stored under the unit key of an input kind, if any
Current(kind) == StorageGet(inputs[kind], 0)

(***************************************************************************)
(* C17.  Under fair scheduling a set_input or remove_input that waits      *)
(* because readonly guards are alive eventually gets both locks, with      *)
(* every guard dropped, applies its own change (the value it was called    *)
(* with is in the table at a revision one above the one it found, or the   *)
(* key is gone) and returns.                                               *)
(***************************************************************************)
C17_BlockedMutationCommits ==
    /\ \A v \in Values :
          (Blocked(Main) /\ mut[Main].op = "set" /\ mut[Main].value = v)
              ~> (/\ mut[Main].pc = "bumped"
                  /\ mut[Main].op = "set"
                  /\ Current(mut[Main].kind) # None
                  /\ Unwrap(Current(mut[Main].kind))[1] = v
                  /\ rev = mut[Main].rev_in + 1
                  /\ \A u \in Threads : Guards(u) = 0)
    /\ (Blocked(Main) /\ mut[Main].op = "remove")
          ~> (/\ mut[Main].op = "remove"
              /\ Current(mut[Main].kind) = None
              /\ mut[Main].pc \in {"locked", "bumped"}
              /\ \A u \in Threads : Guards(u) = 0)
    /\ Blocked(Main) ~> (mut[Main].pc = "idle")

\* set_b waits while a clone runs longer under its guard
C17_Witness ==
    /\ Blocked(Main)
    /\ mut[Main].op = "set"
    /\ \E u \in Threads \ {Main} : InFrame(u, "body") /\ Top(u).guard

(***************************************************************************)
(* C18.  Threads that call try_insert_with for the same key at the same    *)
(* time work under the same id, and only one id is minted for the key;     *)
(* each of them goes on to its body whatever the others do; each one that  *)
(* completes writes its own entry under that id, replacing the entry that  *)
(* is there; nothing else writes query_map, so the entry left is the one   *)
(* written last.                                                           *)
(***************************************************************************)
C18_LastWriterWins ==
    /\ [](/\ query_id = Cardinality(DOMAIN id_map)
          /\ \A t, u \in Threads :
                (frames[t] # <<>> /\ frames[u] # <<>>
                    /\ Top(t).pc \notin {"lock", "insert"} /\ Top(u).pc \notin {"lock", "insert"}
                    /\ Key(Top(t).q, Top(t).p) = Key(Top(u).q, Top(u).p))
                  => Top(t).id = Top(u).id)
    /\ [][\A t \in Threads :
            /\ Inserts(t) =>
                  (Top(t).id \notin Range(query_stack[t]) => frames'[t][Depth(t)].pc = "body")
            /\ Stores(t) =>
                  query_map' = [i \in DOMAIN query_map \cup {Top(t).id} |->
                                  IF i = Top(t).id THEN QueryData(Top(t)) ELSE query_map[i]]]_vars
    /\ [][query_map' # query_map => \E t \in Threads : Stores(t)]_vars

\* two threads executed longer at the same time under one id; one has written
\* its entry and the other is about to replace it with a different one
C18_Witness ==
    \E t, u \in Threads :
        /\ t # u
        /\ InFrame(t, "store")
        /\ InFrame(u, "done")
        /\ Top(t).id = Top(u).id
        /\ query_id = 1
        /\ query_map[Top(u).id] = QueryData(Top(u))
        /\ QueryData(Top(t)) # QueryData(Top(u))

\* thread t, outside every call, calls try_query in this step
Calls(t) ==
    /\ Idle(t)
    /\ \/ frames'[t] # <<>>
       \/ last'[t] # last[t] /\ last'[t].how = "hit" /\ last'[t].clean

\* the keys whose id is minted and has no entry
InProgress == DOMAIN id_map \ Stored

(***************************************************************************)
(* C19.  No query waits on another query.  cached() of a key whose id is   *)
(* minted but has no entry is a miss, a call that misses gets its own      *)
(* execution, and no step of cached or try_insert_with waits for another   *)
(* thread's call: an idle thread can always call, and a thread inside      *)
(* try_insert_with can always take its next step, whenever no mutation     *)
(* holds the shared write lock, wherever the other threads are.            *)
(***************************************************************************)
C19_NoWaiting ==
    /\ [](/\ \A k \in InProgress : cached(k[1], k[2]) = None
          /\ \A t \in Threads :
                (Idle(t) /\ SharedReadable) => ENABLED try_query(t, "longer", 0)
          /\ \A t \in Threads :
                (frames[t] # <<>> /\ Top(t).pc # "lock" /\ SharedReadable) => ENABLED Run(t))
    /\ [][\A t \in Threads :
            Calls(t) =>
                (cached(last'[t].q, last'[t].p) = None <=> frames'[t] # <<>>)]_vars

\* a thread has missed on a key that another thread is executing, and both
\* are inside their own bodies
C19_Witness ==
    \E t, u \in Threads :
        /\ t # u
        /\ Key("longer", 0) \in InProgress
        /\ InFrame(t, "body")
        /\ InFrame(u, "body")
        /\ Top(t).id = Top(u).id
        /\ Top(t).ip > 1

(***************************************************************************)
(* C20.  Readonly guards are shared, not exclusive: lock_readonly is       *)
(* granted whenever no thread holds or waits for the write lock, however   *)
(* many guards are alive, and taking a guard leaves the other guards       *)
(* alive; two threads can therefore both be inside the body of the same    *)
(* query, each under its own guard, before either has finished.            *)
(***************************************************************************)
C20_GuardsShared ==
    /\ [](\A t \in Threads :
            (InFrame(t, "lock") /\ query_lock.writer = 0) => ENABLED lock_readonly(t))
    /\ [][\A t \in Threads :
            (InFrame(t, "lock") /\ frames'[t] # frames[t]) =>
                /\ Guards(t)' = Guards(t) + 1
                /\ \A u \in Threads \ {t} : Guards(u)' = Guards(u)
                /\ query_lock'.writer = query_lock.writer]_vars

\* parallel_queries: two threads are inside the body of longer, each under
\* its own guard, and neither has finished
C20_Witness ==
    \E t, u \in Threads :
        /\ t # u
        /\ Guards(t) = 1
        /\ Guards(u) = 1
        /\ InFrame(t, "body")
        /\ InFrame(u, "body")
        /\ Top(t).q = "longer"
        /\ Top(u).q = "longer"

\* the cells that are present in the input tables
LiveCells ==
    UNION {{Cell(kind, inputs[kind].index_map[key]) : key \in DOMAIN inputs[kind].index_map} :
             kind \in Kinds}

\* thread t completes a remove_input of a present key in this step
Removes(t) == Commits(t) /\ mut[t].op = "remove"

(***************************************************************************)
(* C21.  Removal invalidates dependents: when remove_input removes a cell  *)
(* of a stored entry's dependency set, the revision has advanced by one,   *)
(* the removed cell is stamped with it, and cached returns None for the    *)
(* entry; an entry that depends on a removed cell stays a miss, also after *)
(* the key is set again, until a new execution writes the entry.           *)
(***************************************************************************)
C21_RemovalInvalidates ==
    /\ [](SharedReadable =>
            \A k \in Stored : EntryOf(k).dependencies \ LiveCells # {} => ~IsHit(k))
    /\ [][/\ \A t \in Threads : Removes(t) =>
                /\ rev = mut[t].rev_in + 1
                /\ CommitCell(t) \in DOMAIN input_revs'
                /\ input_revs'[CommitCell(t)] = rev
                /\ CommitCell(t) \notin LiveCells
                /\ \A k \in Stored : CommitCell(t) \in EntryOf(k).dependencies => ~IsHit(k)'
          /\ \A k \in Stored : ~IsHit(k) /\ IsHit(k)' =>
                \E t \in Threads : Stores(t) /\ Top(t).id = id_map[k]]_vars

\* longer was stored, a was removed and then set again: a is present under a
\* new cell and the entry, which depends on the removed cell, is a miss
C21_Witness ==
    /\ mut[Main].pc = "idle"
    /\ StorageGet(inputs[AInput], 0) # None
    /\ \E k \in Stored :
        /\ k[1] = "longer"
        /\ EntryOf(k).dependencies \ LiveCells # {}
        /\ ~IsHit(k)

\* thread t reads, in this step, an input that is not present
ReadsAbsent(t) ==
    /\ InFrame(t, "body")
    /\ Top(t).ip <= Len(Body(Top(t).q, Top(t).p))
    /\ Body(Top(t).q, Top(t).p)[Top(t).ip].op = "input"
    /\ StorageGet(inputs[Body(Top(t).q, Top(t).p)[Top(t).ip].kind],
                  Body(Top(t).q, Top(t).p)[Top(t).ip].key) = None
    /\ frames'[t] # frames[t]

\* the entries of the query whose body read only the absent optional input
ReadAbsent == {k \in Stored : k[1] = "optional" /\ EntryOf(k).output = Absent}

(***************************************************************************)
(* C22.  Absent-cell asymmetry: use_input on a key that is not present     *)
(* gives None and adds nothing to the dependency set of the context, so    *)
(* an entry produced by a body that read only an absent cell has no        *)
(* dependencies and is still a hit, with the same output, when a later     *)
(* set_input has made the cell present.                                    *)
(***************************************************************************)
C22_AbsentAsymmetry ==
    /\ [](\A k \in ReadAbsent : EntryOf(k).dependencies = {})
    /\ [][/\ \A t \in Threads : ReadsAbsent(t) /\ Len(frames'[t]) = Depth(t) =>
                /\ frames'[t][Depth(t)].deps = Top(t).deps
                /\ frames'[t][Depth(t)].pc = "body" =>
                      frames'[t][Depth(t)].vals = Append(Top(t).vals, Absent)
          /\ \A t \in Threads : Commits(t) /\ mut[t].op = "set" =>
                \A k \in ReadAbsent :
                    /\ k \in ReadAbsent'
                    /\ IsHit(k) => cached(k[1], k[2])' = Some(Absent)]_vars

\* the optional input is present, and the call before it was set is still
\* served from the cache with the value of the absent input
C22_Witness ==
    /\ mut[Main].pc = "idle"
    /\ StorageGet(inputs[OptionalInput], 0) # None
    /\ last[Main].q = "optional"
    /\ last[Main].how = "hit"
    /\ last[Main].val = Absent

\* thread t is inside set(key, value) in this step: the call returns the index
\* in mut'[t].key_index
Sets(t) == mut[t].pc = "locked" /\ mut[t].op = "set" /\ mut'[t].pc = "stored"

\* the table and the key of the mutation of thread t
Table(t) == inputs[mut[t].kind]
Present(t) == mut[t].key \in DOMAIN Table(t).index_map

\* the first KeyIndex given out by a table (every index given out is stamped
\* in input_revs before the table is touched again)
Minted(kind) == {c[2] : c \in {d \in DOMAIN input_revs : d[1] = kind}}
FirstMinted(kind) == CHOOSE i \in Minted(kind) : \A j \in Minted(kind) : i <= j

(***************************************************************************)
(* C23 (as stated).  In any sequence of set and remove operations on one   *)
(* table, every set of a key after the first returns the KeyIndex minted   *)
(* the first time the key was set.  Stated for the table of a, whose only  *)
(* key is the unit key, so that every index of the table was minted for    *)
(* that key.                                                               *)
(***************************************************************************)
C23_SameKeyIndex ==
    [][\A t \in Threads : Sets(t) /\ mut[t].kind = AInput /\ Minted(AInput) # {} =>
            mut'[t].key_index = FirstMinted(AInput)]_vars

(***************************************************************************)
(* C23 (amended).  The KeyIndex of a key is minted by a set of the key     *)
(* while it is not present (the first set, and the first set after each    *)
(* removal); every set of a key that is present returns the KeyIndex the   *)
(* key has, and a present key never changes its KeyIndex.                  *)
(***************************************************************************)
C23_KeyIndexWhilePresent ==
    [][/\ \A t \in Threads : Sets(t) =>
            /\ Present(t) => mut'[t].key_index = Table(t).index_map[mut[t].key]
            /\ ~Present(t) => mut'[t].key_index = Table(t).key_index
            /\ mut[t].key \in DOMAIN Table(t)'.index_map
            /\ Table(t)'.index_map[mut[t].key] = mut'[t].key_index
       /\ \A kind \in Kinds :
            \A key \in DOMAIN inputs[kind].index_map \cap DOMAIN inputs'[kind].index_map :
                inputs'[kind].index_map[key] = inputs[kind].index_map[key]]_vars

\* a was set, removed and set once more: the key is present under an index
\* that is not the one minted the first time it was set
C23_Witness ==
    /\ mut[Main].pc = "idle"
    /\ Minted(AInput) # {}
    /\ StorageGet(inputs[AInput], 0) # None
    /\ Unwrap(StorageGet(inputs[AInput], 0))[2] # FirstMinted(AInput)

\* the dependency tuples captured by the stored entries and by the calls that
\* are running
Captured ==
    UNION ({query_map[i].dependencies : i \in DOMAIN query_map}
           \cup UNION {{frames[t][i].deps : i \in 1..Len(frames[t])} : t \in Threads})

(***************************************************************************)
(* C24.  KeyIndex values are never reused: the KeyIndex given to a key     *)
(* that is inserted differs from every KeyIndex the table gave out before, *)
(* those of removed keys included, and from the index of every other key;  *)
(* so no dependency tuple captured before names the new cell.  Every index *)
(* given out is below the table's counter.                                 *)
(***************************************************************************)
C24_KeyIndexNeverReused ==
    /\ [](\A kind \in Kinds :
            /\ \A k1, k2 \in DOMAIN inputs[kind].index_map :
                   inputs[kind].index_map[k1] = inputs[kind].index_map[k2] => k1 = k2
            /\ \A key \in DOMAIN inputs[kind].index_map :
                   inputs[kind].index_map[key] < inputs[kind].key_index
            /\ \A i \in Minted(kind) : i < inputs[kind].key_index
            /\ \A c \in Captured : c[1] = kind => c[2] < inputs[kind].key_index)
    /\ [][\A t \in Threads : Sets(t) /\ ~Present(t) =>
            /\ mut'[t].key_index \notin Minted(mut[t].kind)
            /\ \A key \in DOMAIN Table(t).index_map :
                   Table(t).index_map[key] # mut'[t].key_index
            /\ Cell(mut[t].kind, mut'[t].key_index) \notin Captured]_vars

\* Param::Foo was removed and set again while the entry of
\* square_parametrized(Foo) still names the removed cell: the key has a new
\* index and the old cell keeps its stamp
C24_Witness ==
    /\ mut[Main].pc = "idle"
    /\ StorageGet(inputs[ParametrizedInput], 0) # None
    /\ \E c \in Captured :
        /\ c[1] = ParametrizedInput
        /\ c \notin LiveCells
        /\ c \in DOMAIN input_revs
        /\ c[2] < Unwrap(StorageGet(inputs[ParametrizedInput], 0))[2]

\* thread t takes, in this step, a step of a remove_input whose key is not
\* present: the call itself, the locks, or remove returning None
RemovesAbsent(t) ==
    /\ mut'[t] # mut[t]
    /\ \/ /\ mut[t].pc = "idle"
          /\ mut'[t].op = "remove"
          /\ mut'[t].key \notin DOMAIN inputs[mut'[t].kind].index_map
       \/ /\ mut[t].pc \in {"wait", "locked"}
          /\ mut[t].op = "remove"
          /\ ~Present(t)

(***************************************************************************)
(* C25.  remove_input of a key that is not present is a no-op: no step of  *)
(* the call changes the revision, an input table or input_revs, the call   *)
(* returns right after remove has returned None, and every cache entry is  *)
(* served after the call exactly as before it.                             *)
(***************************************************************************)
C25_RemoveAbsentNoOp ==
    [][\A t \in Threads : RemovesAbsent(t) =>
          /\ rev' = rev
          /\ inputs' = inputs
          /\ input_revs' = input_revs
          /\ mut[t].pc = "locked" =>
                mut'[t] = MutIdle /\ shared_lock' = 0 /\ query_lock'.writer = 0
          /\ \A k \in Stored :
                /\ k \in Stored'
                /\ EntryOf(k)' = EntryOf(k)
                /\ IsHit(k)' = IsHit(k)]_vars

\* Param::Foo is absent and remove_input(Foo) holds the locks, about to find
\* no key, while the entry of square_parametrized(Bar) is a hit
C25_Witness ==
    /\ mut[Main].pc = "locked"
    /\ mut[Main].op = "remove"
    /\ StorageGet(inputs[mut[Main].kind], mut[Main].key) = None
    /\ \E k \in Stored : IsHit(k) /\ EntryOf(k).dependencies # {}

\* the stored entries with an empty dependency set
Independent == {k \in Stored : EntryOf(k).dependencies = {}}

(***************************************************************************)
(* C26.  An entry with an empty dependency set is never invalidated:       *)
(* last_rev_of of the empty set is the initial revision 1, so in every     *)
(* state the entry is a hit with its stored output, and every step of a    *)
(* set_input or remove_input leaves it stored, unchanged and a hit.        *)
(***************************************************************************)
C26_EmptyDepsNeverInvalid ==
    /\ [](/\ last_rev_of({}) = START
          /\ \A k \in Independent :
                /\ EntryOf(k).valid_at >= START
                /\ cached(k[1], k[2]) = Some(EntryOf(k).output))
    /\ [][\A k \in Independent : mut' # mut =>
                /\ k \in Independent'
                /\ EntryOf(k)' = EntryOf(k)
                /\ cached(k[1], k[2])' = cached(k[1], k[2])]_vars

\* foo(1), whose body reads nothing, was stored before the last mutation
\* and the call after the mutation was served from the cache
C26_Witness ==
    /\ mut[Main].pc = "idle"
    /\ last[Main].q = "foo"
    /\ last[Main].how = "hit"
    /\ \E k \in Independent :
        /\ k[1] = "foo"
        /\ EntryOf(k).valid_at < rev
        /\ last[Main].clean

\* thread t drops the ActiveQueryGuard of its innermost call in this step:
\* before the entry is written, or when the call returns an error
Drops(t) ==
    /\ frames'[t] # frames[t]
    /\ \/ InFrame(t, "store")
       \/ InFrame(t, "err") /\ Top(t).pop_at > 0

\* the calls of thread t that hold a guard, outermost first
Holders(t) == SelectSeq(frames[t], Held)

(***************************************************************************)
(* C27.  The pop-guard assertion never fails: whenever an                  *)
(* ActiveQueryGuard is dropped, on a normal return, on an error return or  *)
(* while a cycle error travels up through nested calls, the stack length   *)
(* equals the guard's pop_at and the id popped is the guard's own; the     *)
(* guards alive are exactly the stack, in order, so they are released in   *)
(* strict LIFO order.                                                      *)
(***************************************************************************)
C27_PopGuardHolds ==
    /\ [](\A t \in Threads :
            /\ Len(Holders(t)) = Len(query_stack[t])
            /\ \A i \in 1..Len(Holders(t)) :
                  /\ Holders(t)[i].pop_at = i
                  /\ i <= Len(query_stack[t]) => query_stack[t][i] = Holders(t)[i].id)
    /\ [][\A t \in Threads : Drops(t) =>
            /\ GuardDropOk(query_stack[t], Top(t).pop_at)
            /\ query_stack[t] # <<>>
            /\ query_stack[t][Len(query_stack[t])] = Top(t).id
            /\ query_stack'[t] = SubSeq(query_stack[t], 1, Top(t).pop_at - 1)
            /\ \A i \in 1..Len(frames'[t]) :
                  Held(frames'[t][i]) => frames'[t][i].pop_at < Top(t).pop_at]_vars

\* the cycle error of foo(2) is on its way up: bar(1), called by foo(2), has
\* got it from baz(1) and still holds its guard, the second of two
C27_Witness ==
    /\ Depth(Main) = 2
    /\ Top(Main).pc = "err"
    /\ Top(Main).fail = "cycle"
    /\ Top(Main).pop_at = 2
    /\ Len(query_stack[Main]) = 2
    /\ \E k \in Stored : k[1] = "longer"

(***************************************************************************)
(* C28.  Every live cell appears in input_revs: in every state in which    *)
(* no set_input or remove_input holds the shared write lock, each key      *)
(* present in a table has an input_revs entry for its cell; while a call   *)
(* holds the lock, the only cell that can be missing is the one it is      *)
(* about to stamp; and input_revs entries are never deleted, so the entry  *)
(* of a removed cell remains.                                              *)
(***************************************************************************)
C28_LiveCellsStamped ==
    /\ [](/\ SharedReadable => LiveCells \subseteq DOMAIN input_revs
          /\ \A t \in Threads : shared_lock = t =>
                LiveCells \ DOMAIN input_revs \subseteq {Cell(mut[t].kind, mut[t].key_index)})
    /\ [][/\ DOMAIN input_revs \subseteq DOMAIN input_revs'
          /\ inputs' # inputs \/ input_revs' # input_revs => shared_lock # 0]_vars

\* one parametrized cell is live and stamped, and the cell of a, which was
\* removed, still has its entry
C28_Witness ==
    /\ SharedReadable
    /\ \E c \in LiveCells : c[1] = ParametrizedInput /\ c \in DOMAIN input_revs
    /\ \E c \in DOMAIN input_revs : c[1] = AInput /\ c \notin LiveCells

\* the KeyIndex values of the keys of a table
Indexes(s) == {s.index_map[key] : key \in DOMAIN s.index_map}

\* thread t is inside remove(key) of a present key in this step
Unsets(t) == mut[t].pc = "locked" /\ mut[t].op = "remove" /\ mut'[t].pc = "stored"

\* get(key) on table s and on table s2 give the same for every key but key
SameElsewhere(s, s2, key) ==
    \A k \in (DOMAIN s.index_map \cup DOMAIN s2.index_map) \ {key} :
        StorageGet(s2, k) = StorageGet(s, k)

(***************************************************************************)
(* C29.  Input table coherence: in every state the KeyIndex values of the  *)
(* key-to-index map are the keys of the index-to-value map, so get and     *)
(* remove find a value for every mapped key; after set(key, value) get     *)
(* returns that value under the index set returned, after remove(key) get  *)
(* returns None, both leave every other key as it was, and nothing else    *)
(* changes a table: get(key) is the value of the latest set of the key     *)
(* since its last removal.                                                 *)
(***************************************************************************)
C29_TableCoherence ==
    /\ [](\A kind \in Kinds : Indexes(inputs[kind]) = DOMAIN inputs[kind].value_map)
    /\ [][/\ \A t \in Threads : Sets(t) =>
                /\ StorageGet(Table(t)', mut[t].key) =
                       Some(<<mut[t].value, mut'[t].key_index>>)
                /\ SameElsewhere(Table(t), Table(t)', mut[t].key)
          /\ \A t \in Threads : Unsets(t) =>
                /\ StorageGet(Table(t)', mut[t].key) = None
                /\ StorageGet(Table(t), mut[t].key) =
                       Some(<<Table(t).value_map[mut'[t].key_index], mut'[t].key_index>>)
                /\ SameElsewhere(Table(t), Table(t)', mut[t].key)
          /\ inputs' # inputs => \E t \in Threads : Sets(t) \/ Unsets(t)]_vars

\* Param::Foo was set to 0 and then to 1, Param::Bar to 0: get gives the
\* latest value of each under its own index
C29_Witness ==
    /\ mut[Main].pc = "idle"
    /\ inputs[ParametrizedInput].key_index = 3
    /\ StorageGet(inputs[ParametrizedInput], 0) = Some(<<1, 0>>)
    /\ StorageGet(inputs[ParametrizedInput], 1) = Some(<<0, 2>>)

\* the id under which thread t runs its innermost call after this step
PushedId(t) == frames'[t][Depth(t)].id

(***************************************************************************)
(* C30.  A clone of the runtime shares the query lock (and with it the     *)
(* input state and the revision it protects) with the original, and has    *)
(* its own query stack, empty until the clone calls a query.  Cycle        *)
(* detection is per clone: a push reports a cycle exactly when the id is   *)
(* on the pushing clone's own stack; an id that is active only on another  *)
(* clone's stack is pushed and the body runs.  No clone's stack is changed *)
(* by another clone's step.                                                *)
(***************************************************************************)
C30_StackPerClone ==
    /\ [](\A t \in Threads :
            /\ frames[t] = <<>> => query_stack[t] = <<>>
            /\ query_lock.readers[t] = Guards(t)
            /\ Guards(t) > 0 => \A u \in Threads : ~Critical(u))
    /\ [][\A t \in Threads :
            /\ Inserts(t) =>
                /\ PushedId(t) \in Range(query_stack[t]) =>
                      /\ frames'[t][Depth(t)].fail = "cycle"
                      /\ query_stack'[t] = query_stack[t]
                /\ PushedId(t) \notin Range(query_stack[t]) =>
                      /\ frames'[t][Depth(t)].pc = "body"
                      /\ frames'[t][Depth(t)].cycle = <<>>
                      /\ query_stack'[t] = Append(query_stack[t], PushedId(t))
            /\ query_stack'[t] # query_stack[t] => frames'[t] # frames[t]
            /\ mut[t].pc = "wait" /\ mut'[t].pc = "locked" =>
                  \A u \in Threads : Guards(u) = 0]_vars

\* a clone has pushed the id of foo(2) while the same id is on the stack of
\* another clone, below the ids of the calls foo(2) made there
C30_Witness ==
    \E t, u \in Threads :
        /\ t # u
        /\ Len(query_stack[t]) > 1
        /\ Len(query_stack[u]) = 1
        /\ query_stack[u][1] = query_stack[t][1]
        /\ InFrame(u, "body")
        /\ Top(u).q = "foo"

\* the cell thread t adds to its dependency set in this step, if any
NewDeps(t) == frames'[t][Depth(t)].deps \ Top(t).deps

(***************************************************************************)
(* C31.  last_rev_of never fails on an unknown cell: in every reachable    *)
(* state every cell in the dependency set of a stored entry, and of a      *)
(* call that is running, is a key of input_revs, so the indexing in        *)
(* last_rev_of cannot panic; a cell is in input_revs when use_input        *)
(* records it, whatever set_input or remove_input is in progress, and      *)
(* stays there after the cell has been removed.                            *)
(***************************************************************************)
C31_DepsAreStamped ==
    /\ [](Captured \subseteq DOMAIN input_revs)
    /\ [](\A k \in Stored :
            \A d \in EntryOf(k).dependencies :
                d \in DOMAIN input_revs /\ input_revs[d] <= last_rev_of(EntryOf(k).dependencies))
    /\ [][/\ \A t \in Threads : Reads(t) /\ Len(frames'[t]) = Depth(t) =>
                NewDeps(t) \subseteq DOMAIN input_revs
          /\ DOMAIN input_revs \subseteq DOMAIN input_revs']_vars

\* an entry depends on the cell of the optional input, which has been
\* removed since; another call has just read the input as absent while the
\* owner is inside a mutation
C31_Witness ==
    /\ \E k \in Stored :
        \E d \in EntryOf(k).dependencies : d \notin LiveCells /\ d \in DOMAIN input_revs
    /\ mut[Main].pc # "idle"
    /\ \E t \in Threads : InFrame(t, "body") /\ Top(t).vals = <<Absent>>

\* no element occurs twice in sequence s
Distinct(s) == \A i, j \in 1..Len(s) : s[i] = s[j] => i = j

\* the cycles that are being reported or have been reported to the driver
Cycles ==
    UNION {{frames[t][i].cycle : i \in 1..Len(frames[t])} : t \in Threads}
        \cup {last[t].cycle : t \in Threads}

(***************************************************************************)
(* C32.  The query stack of a runtime never contains the same QueryId      *)
(* twice.  Hence the scan in push finds at most one occurrence of the id   *)
(* pushed, and a reported cycle starts and ends with the repeated id and   *)
(* contains it, and every other id, nowhere else.                          *)
(***************************************************************************)
C32_StackIdsDistinct ==
    /\ [](\A t \in Threads : Distinct(query_stack[t]))
    /\ [](\A c \in Cycles : c # <<>> =>
            /\ Len(c) >= 2
            /\ c[1] = c[Len(c)]
            /\ Distinct(SubSeq(c, 1, Len(c) - 1)))
    /\ [][\A t \in Threads : Inserts(t) =>
            /\ Cardinality({i \in 1..Len(query_stack[t]) :
                               query_stack[t][i] = PushedId(t)}) <= 1
            /\ Distinct(query_stack'[t])]_vars

\* below foo(MaxN) the calls have come back to bar(2): the stack holds
\* distinct ids and the cycle reported is its topmost part, closed
C32_Witness ==
    /\ InFrame(Main, "err")
    /\ Top(Main).fail = "cycle"
    /\ Top(Main).pop_at = 0
    /\ Len(Top(Main).cycle) > 2
    /\ Len(query_stack[Main]) > Len(Top(Main).cycle)
    /\ frames[Main][1].p = MaxN

\* thread t is inside a call
Busy(t) == frames[t] # <<>> \/ mut[t].pc # "idle"

\* thread t waits in lock_readonly, or in the query_lock.write() of set_input
WaitsRead(t) == InFrame(t, "lock")
WaitsWrite(t) == mut[t].pc = "wait"

\* some thread is inside a call and no thread inside a call can take a step
Stuck ==
    /\ \E t \in Threads : Busy(t)
    /\ ~ENABLED Mutate(Main)
    /\ \A t \in Threads : ~ENABLED (call_query(t) \/ Run(t))

(***************************************************************************)
(* C33.  No deadlock with nested snapshot locks: when threads run queries  *)
(* that invoke further queries, every cache miss takes lock_readonly       *)
(* around its body, and a thread calls set_input in between, no reachable  *)
(* state is a deadlock, and every lock_readonly acquisition and every      *)
(* set_input eventually proceeds, also when a waiting writer makes new     *)
(* readers queue behind it.                                                *)
(***************************************************************************)
C33_NoDeadlockNested ==
    /\ [](~Stuck)
    /\ \A t \in Threads : WaitsRead(t) ~> ~WaitsRead(t)
    /\ \A t \in Threads : WaitsWrite(t) ~> ~WaitsWrite(t)

====
